---- MODULE Spec2Model ----
(***************************************************************************)
(* News backend (backend-zonamicroondas): slug resolution and the          *)
(* synchronisation of a news aggregate (news row, blocks, images, tag      *)
(* links, related links).                                                  *)
(*                                                                         *)
(* Two request layers over the same relational schema are modelled:        *)
(*   - src/server.js (first server, lines 1-1100): handlers that talk to   *)
(*     the store one awaited call at a time, without a transaction; every  *)
(*     awaited call is one step of a client, so handlers interleave;       *)
(*   - src/migrate-slugs.js lines 80-380 (news.controller): handlers that  *)
(*     run inside one SQL transaction; each is one atomic step.            *)
(* SpecSeq is the first server with its requests arriving one at a time;   *)
(* SpecResolve runs each of the three copies of ensureUniqueSlug against   *)
(* an unchanging store; SpecTax has the delete handlers of categories and  *)
(* authors.  The delete handlers of news, one statement each, are steps of *)
(* SpecCtl.                                                                *)
(* Every store call of server.js may return an error.  The schema is not   *)
(* part of the repository: uniqueIndex, fixed in the initial state, says   *)
(* whether news.canonical_slug carries a unique index, and onDelete says   *)
(* what the child tables' references to news do when a news row goes.      *)
(* Texts are sequences of one-character strings.                           *)
(***************************************************************************)
EXTENDS Integers, Sequences, FiniteSets, TLC

VARIABLES
  news,          \* table news: id -> row
  nextId,        \* the serial the store assigns to the next news row
  news_blocks,   \* table news_blocks, rows in insertion order
  news_images,   \* table news_images, rows in insertion order
  news_tags,     \* table news_tags, rows in insertion order
  news_related,  \* table news_related, rows in insertion order
  uniqueIndex,   \* whether the deployed schema has a unique index on news.canonical_slug
  onDelete,      \* the deployed schema's rule for rows that reference a deleted row
  categories,    \* table categories: id -> parent_id
  authors,       \* table authors: the ids of its rows
  blobs,         \* image store: the public ids of the images it holds
  req,           \* server.js: the request each client is running
  started,       \* number of requests started so far
  last           \* news.controller: the last request handled

vars == <<news, nextId, news_blocks, news_images, news_tags, news_related,
          uniqueIndex, onDelete, categories, authors, blobs, req, started, last>>

schema == <<uniqueIndex, onDelete>>

taxonomy == <<categories, authors>>

store == <<news, nextId, news_blocks, news_images, news_tags, news_related>>

----------------------------------------------------------------------------
(* Bounds *)

MaxNews == 3      \* ids the store hands out
MaxOps == 2       \* requests started in one behaviour
MaxHeld == 101    \* rows of one slug family in the store a resolver runs against
MaxFree == 2      \* the smallest free candidate of a family that has a gap
MaxLen == 4       \* length of the texts given to generateSlug

(* Program constants *)

MaxAttempts == 100

----------------------------------------------------------------------------
(* Values *)

Null == <<"NULL">>          \* SQL NULL / JS null in a text column
NoText == <<>>              \* the empty string

Falsy(v) == v = Null \/ v = NoText

----------------------------------------------------------------------------
(* generateSlug *)

Whitespace == {" "}
Hyphen == "-"
WordChars == {"a", "b", "c", "e", "f", "h", "l", "n", "o", "s", "w", "A", "C", "L",
              "0", "1", "2", "3", "4", "5", "6", "7", "8", "9", "_"}
CombiningMarks == {"U+0301"}

\* String.prototype.normalize('NFD') on one character
Nfd(c) == IF c = "e_acute" THEN <<"e", "U+0301">> ELSE <<c>>

\* String.prototype.toLowerCase on one character
ToLower(c) == CASE c = "A" -> "a" [] c = "C" -> "c" [] c = "L" -> "l" [] OTHER -> c

RECURSIVE Normalize(_)
Normalize(s) == IF s = <<>> THEN <<>> ELSE Nfd(Head(s)) \o Normalize(Tail(s))

\* .replace(/[\u0300-\u036f]/g, '')
StripMarks(s) == SelectSeq(s, LAMBDA c : c \notin CombiningMarks)

LowerCase(s) == [i \in 1..Len(s) |-> ToLower(s[i])]

RECURSIVE TrimLeft(_)
TrimLeft(s) == IF s # <<>> /\ Head(s) \in Whitespace THEN TrimLeft(Tail(s)) ELSE s

RECURSIVE TrimRight(_)
TrimRight(s) == IF s # <<>> /\ s[Len(s)] \in Whitespace
                THEN TrimRight(SubSeq(s, 1, Len(s) - 1)) ELSE s

Trim(s) == TrimRight(TrimLeft(s))

\* .replace(/\s+/g, '-')
RECURSIVE SpacesToHyphen(_)
SpacesToHyphen(s) ==
  IF s = <<>> THEN <<>>
  ELSE IF Head(s) \in Whitespace
       THEN <<Hyphen>> \o SpacesToHyphen(TrimLeft(s))
       ELSE <<Head(s)>> \o SpacesToHyphen(Tail(s))

\* .replace(/[^\w\-]+/g, '')
KeepWord(s) == SelectSeq(s, LAMBDA c : c \in WordChars \/ c = Hyphen)

RECURSIVE StripLeadingHyphens(_)
StripLeadingHyphens(s) ==
  IF s # <<>> /\ Head(s) = Hyphen THEN StripLeadingHyphens(Tail(s)) ELSE s

RECURSIVE StripTrailingHyphens(_)
StripTrailingHyphens(s) ==
  IF s # <<>> /\ s[Len(s)] = Hyphen
  THEN StripTrailingHyphens(SubSeq(s, 1, Len(s) - 1)) ELSE s

\* .replace(/\-\-+/g, '-')
\* the step that collapses hyphen runs is missing
KeepHyphens(s) == s

RECURSIVE CollapseHyphens(_)
CollapseHyphens(s) ==
  IF s = <<>> THEN <<>>
  ELSE IF Head(s) = Hyphen
       THEN <<Hyphen>> \o CollapseHyphens(StripLeadingHyphens(s))
       ELSE <<Head(s)>> \o CollapseHyphens(Tail(s))

generateSlug(text) ==
  StripTrailingHyphens(StripLeadingHyphens(CollapseHyphens(KeepWord(
    SpacesToHyphen(Trim(LowerCase(StripMarks(Normalize(text)))))))))

\* the copy of the migration script (src/migrate-slugs.js 11-21): no
\* normalize('NFD') and no removal of the combining marks
generateSlugMigrate(text) ==
  StripTrailingHyphens(StripLeadingHyphens(CollapseHyphens(KeepWord(
    SpacesToHyphen(Trim(LowerCase(text)))))))

----------------------------------------------------------------------------
(* Template literals *)

Digit(d) == CASE d = 0 -> "0" [] d = 1 -> "1" [] d = 2 -> "2" [] d = 3 -> "3"
              [] d = 4 -> "4" [] d = 5 -> "5" [] d = 6 -> "6" [] d = 7 -> "7"
              [] d = 8 -> "8" [] d = 9 -> "9"

\* the decimal text of a non-negative integer
RECURSIVE NumText(_)
NumText(n) == IF n < 10 THEN <<Digit(n)>> ELSE NumText(n \div 10) \o <<Digit(n % 10)>>

\* `${baseSlug}-${counter + 1}`
Suffixed(baseSlug, k) == baseSlug \o <<Hyphen>> \o NumText(k)

\* `news-${news.id}`
SeedOf(id) == <<"n", "e", "w", "s", Hyphen>> \o NumText(id)

----------------------------------------------------------------------------
(* Rows and request bodies.  Titles and slugs are texts; every other      *)
(* column value is an atom, "NULL" standing for SQL NULL.                  *)

NullAtom == "NULL"

Clients == {"c1", "c2"}

\* a row of table news
NewsRow(title, status, slug) ==
  [title |-> title, subtitle |-> NullAtom, summary |-> NullAtom,
   author_id |-> NullAtom, main_category_id |-> NullAtom, status |-> status,
   published_at |-> NullAtom, is_featured |-> NullAtom, canonical_slug |-> slug]

NoRow == NewsRow(Null, NullAtom, Null)

\* an entry of req.body.blocks; hasPos tells whether the entry carries a position
BlockIn(content, hasPos, position) ==
  [type |-> "text", content |-> content, media_url |-> NullAtom,
   alt_text |-> NullAtom, hasPos |-> hasPos, position |-> position]

\* an entry of req.body.images
ImageIn(url, hasPos, position) ==
  [url |-> url, caption |-> NullAtom, alt_text |-> NullAtom,
   hasPos |-> hasPos, position |-> position]

BlockRow(id, b, position) ==
  [news_id |-> id, type |-> b.type, content |-> b.content,
   media_url |-> b.media_url, alt_text |-> b.alt_text, position |-> position]

ImageRow(id, im, position) ==
  [news_id |-> id, url |-> im.url, caption |-> im.caption,
   alt_text |-> im.alt_text, position |-> position]

\* req.body: has is the set of keys present in the JSON body; a key that is
\* not in has is undefined and its field here holds a filler
EmptyBody ==
  [has |-> {}, title |-> NoText, subtitle |-> NullAtom, summary |-> NullAtom,
   author_id |-> NullAtom, main_category_id |-> NullAtom, status |-> NullAtom,
   published_at |-> NullAtom, is_featured |-> NullAtom,
   canonical_slug |-> NoText, tags |-> <<>>, blocks |-> <<>>,
   images |-> <<>>, related_ids |-> <<>>,
   name |-> NullAtom, slug |-> NoText, parent_id |-> NullAtom]

With(body, k, v) == [body EXCEPT ![k] = v, !.has = @ \cup {k}]

Defined(body, k) == k \in body.has

----------------------------------------------------------------------------
(* The store *)

RowsOf(table, id) == SelectSeq(table, LAMBDA r : r.news_id = id)
RowsNotOf(table, id) == SelectSeq(table, LAMBDA r : r.news_id # id)

IsSortedByPosition(s) == \A i \in 1..(Len(s) - 1) : s[i].position <= s[i + 1].position

\* SELECT ... WHERE news_id = id ORDER BY position: rows of equal position
\* come in an order the store chooses
OrderedReads(table, id) ==
  LET rows == RowsOf(table, id)
      n == Len(rows)
      Perms == {p \in [1..n -> 1..n] : \A i, j \in 1..n : i # j => p[i] # p[j]}
  IN {s \in {[i \in 1..n |-> rows[p[i]]] : p \in Perms} : IsSortedByPosition(s)}

\* the stored aggregate of one news id
Aggregate(id) ==
  [exists |-> id \in DOMAIN news,
   row |-> IF id \in DOMAIN news THEN news[id] ELSE NoRow,
   blocks |-> RowsOf(news_blocks, id),
   images |-> RowsOf(news_images, id),
   tags |-> RowsOf(news_tags, id),
   related |-> RowsOf(news_related, id)]

\* the query without its .neq('id', excludeId)
HoldersWithSelf(slug, excludeId) ==
  {i \in DOMAIN news : news[i].canonical_slug = slug}

\* rows that hold slug, other than row excludeId (0: no row is excluded)
Holders(slug, excludeId) ==
  {i \in DOMAIN news : news[i].canonical_slug = slug /\ i # excludeId}

\* the unique index, where the schema has one, rejects a second equal non-NULL slug
IndexRejects(slug, excludeId) ==
  uniqueIndex /\ slug # Null /\ Holders(slug, excludeId) # {}

\* a foreign key to news, where the schema has one, rejects a child row
\* whose news_id names no news row
ParentMissing(id) == onDelete # "none" /\ id \notin DOMAIN news

InitBlocks == <<BlockRow(1, BlockIn("p", FALSE, 0), 0), BlockRow(1, BlockIn("q", FALSE, 0), 1)>>
InitImages == <<ImageRow(1, ImageIn("u1", TRUE, 0), 0)>>
InitTags == <<[news_id |-> 1, tag_id |-> 1]>>

----------------------------------------------------------------------------
(* server.js: requests *)

NoOut == [canonical_slug |-> Null, row |-> NoRow, images |-> <<>>,
          blocks |-> <<>>, tags |-> <<>>, related |-> <<>>]

NoAggregate == [exists |-> FALSE, row |-> NoRow, blocks |-> <<>>, images |-> <<>>,
                tags |-> <<>>, related |-> <<>>]

Idle == [kind |-> "none", pc |-> "idle", id |-> 0, body |-> EmptyBody,
         baseSlug |-> NoText, slug |-> Null, counter |-> 0, excludeId |-> 0,
         newsId |-> 0, status |-> 0, out |-> NoOut,
         pre |-> NoAggregate, solo |-> TRUE, readErrors |-> {},
         queries |-> 0, thrown |-> "none", ref |-> NullAtom,
         file |-> <<>>, publicId |-> <<>>]

InFlight(c) == req[c].pc \notin {"idle", "done"}

\* news.controller: no request handled yet
NoRequest == [kind |-> "none", id |-> 0, body |-> EmptyBody, status |-> 0,
              error |-> "none", pre |-> NoAggregate]

\* "cascade": ON DELETE CASCADE; "restrict": a foreign key without it;
\* "none": the child tables carry no foreign key to news
\* category 2 is a child of category 1; 3 and 4 have no parent
InitCategories == [k \in {"1", "2", "3", "4"} |-> IF k = "2" THEN "1" ELSE NullAtom]

InitAuthors == {"1", "2"}

InitRow(slug) == [NewsRow(<<"a">>, "draft", slug) EXCEPT !.subtitle = "s1",
                                                         !.published_at = "d1"]

\* one news row, written before the server started, with its children
InitStore(titles, rules) ==
  /\ \E s \in {Null, <<"a">>}, t \in titles :
       news = (1 :> [InitRow(s) EXCEPT !.title = t])
  /\ categories = InitCategories
  /\ authors = InitAuthors
  /\ blobs = {}
  /\ nextId = 2
  /\ news_blocks = InitBlocks
  /\ news_images = InitImages
  /\ news_tags = InitTags
  /\ news_related = <<>>
  /\ uniqueIndex \in BOOLEAN
  /\ onDelete \in rules
  /\ req = [c \in Clients |-> Idle]
  /\ started = 0
  /\ last = NoRequest

\* no request of Spec deletes a news row, so the rule for it is left fixed
Init == InitStore({<<"a">>}, {"none"})

\* sequential requests: the first row may also lack its title
InitSeq == InitStore({<<"a">>, Null}, {"none"})

\* the one-step handlers, on every schema
InitCtl == InitStore({<<"a">>}, {"cascade", "restrict", "none"})

Respond(r, status) == [r EXCEPT !.pc = "done", !.status = status]

\* a client sends a request: r is the handler's state at its first await
Begin(c, r) ==
  /\ ~InFlight(c)
  /\ started < MaxOps
  /\ started' = started + 1
  /\ req' = [d \in Clients |->
               IF d = c THEN [r EXCEPT !.solo = \A e \in Clients \ {c} : ~InFlight(e)]
               ELSE IF InFlight(d) THEN [req[d] EXCEPT !.solo = FALSE]
               ELSE req[d]]

----------------------------------------------------------------------------
(* server.js: ensureUniqueSlug, one query of its loop per step *)

\* where the handler goes on once ensureUniqueSlug has returned final
SlugReturns(r, final) ==
  CASE r.kind = "POST" -> [r EXCEPT !.pc = "insert", !.slug = final]
    [] r.kind = "PUT" -> [r EXCEPT !.pc = "update", !.slug = final]
    [] r.kind = "GET" -> [r EXCEPT !.pc = "backfill", !.slug = final]
    [] OTHER -> [r EXCEPT !.pc = "done", !.slug = final]

\* the throw of ensureUniqueSlug ends every request, the read included
SlugThrowsAborts(r, error) == [Respond(r, 500) EXCEPT !.thrown = error]

\* where the handler goes on once ensureUniqueSlug has thrown error
SlugThrows(r, error) ==
  IF r.kind = "GET" THEN [r EXCEPT !.pc = "images", !.thrown = error]
  ELSE [Respond(r, 500) EXCEPT !.thrown = error]

\* the retry builds its candidate from counter instead of counter + 1
ensureUniqueSlugFromCounter(c) ==
  /\ req[c].pc = "slug"
  /\ \E ok \in BOOLEAN :
       LET r == [req[c] EXCEPT !.queries = @ + 1]
           rows == Holders(r.slug, r.excludeId)
       IN req' = [req EXCEPT ![c] =
            IF ~ok THEN SlugThrows(r, "store")
            ELSE IF rows = {} THEN SlugReturns(r, r.slug)
            ELSE IF r.counter + 1 < MaxAttempts
                 THEN [r EXCEPT !.slug = Suffixed(r.baseSlug, r.counter),
                                !.counter = r.counter + 1]
                 ELSE SlugThrows(r, "exhausted")]
  /\ UNCHANGED <<store, schema, blobs, taxonomy, started, last>>

ensureUniqueSlug(c) ==
  /\ req[c].pc = "slug"
  /\ \E ok \in BOOLEAN :
       LET r == [req[c] EXCEPT !.queries = @ + 1]
           rows == Holders(r.slug, r.excludeId)
       IN req' = [req EXCEPT ![c] =
            IF ~ok THEN SlugThrows(r, "store")
            ELSE IF rows = {} THEN SlugReturns(r, r.slug)
            ELSE IF r.counter + 1 < MaxAttempts
                 THEN [r EXCEPT !.slug = Suffixed(r.baseSlug, r.counter + 1),
                                !.counter = r.counter + 1]
                 ELSE SlugThrows(r, "exhausted")]
  /\ UNCHANGED <<store, schema, blobs, taxonomy, started, last>>

----------------------------------------------------------------------------
(* server.js: POST /api/news *)

PostBodies ==
  { With(With(With(EmptyBody, "title", <<"a">>), "tags", <<1>>),
         "blocks", <<BlockIn("x", TRUE, 5), BlockIn("y", FALSE, 0)>>),
    With(EmptyBody, "title", <<"a">>),
    With(EmptyBody, "title", <<"!">>) }

\* POST requests that have not yet inserted their news row
PendingInserts == {d \in Clients : req[d].kind = "POST" /\ req[d].pc \in {"slug", "insert"}}

PostAfterTags(r) ==
  IF Len(r.body.blocks) > 0 THEN [r EXCEPT !.pc = "blocksIns"] ELSE Respond(r, 201)

PostAfterInsert(r) ==
  IF Len(r.body.tags) > 0 THEN [r EXCEPT !.pc = "tagsIns"] ELSE PostAfterTags(r)

\* the handler up to its first await, for one request body
PostRequest(c, body) ==
    LET first == IF ~Defined(body, "canonical_slug") \/ Falsy(body.canonical_slug)
                 THEN Null ELSE generateSlug(body.canonical_slug)
        title == IF Defined(body, "title") THEN body.title ELSE Null
        r0 == [Idle EXCEPT !.kind = "POST", !.body = body]
    IN /\ nextId + Cardinality(PendingInserts) <= MaxNews
       /\ Begin(c, IF ~Falsy(first)
                   THEN [r0 EXCEPT !.pc = "slug", !.baseSlug = first, !.slug = first]
                   ELSE IF ~Falsy(title)
                   THEN [r0 EXCEPT !.pc = "slug", !.baseSlug = generateSlug(title),
                                   !.slug = generateSlug(title)]
                   ELSE [r0 EXCEPT !.pc = "insert", !.slug = first])
       /\ UNCHANGED <<store, schema, blobs, taxonomy, last>>

PostStart(c) == \E body \in PostBodies : PostRequest(c, body)

\* the column value an insert stores for body key k: an undefined key is
\* dropped from the JSON and the column takes its default
Column(body, k) == IF Defined(body, k) THEN body[k] ELSE NullAtom

PostRow(r) ==
  [title |-> IF Defined(r.body, "title") THEN r.body.title ELSE Null,
   subtitle |-> Column(r.body, "subtitle"),
   summary |-> Column(r.body, "summary"),
   author_id |-> Column(r.body, "author_id"),
   main_category_id |-> Column(r.body, "main_category_id"),
   status |-> IF Defined(r.body, "status") THEN r.body.status ELSE "draft",
   published_at |-> Column(r.body, "published_at"),
   is_featured |-> IF Defined(r.body, "is_featured") THEN r.body.is_featured ELSE "0",
   canonical_slug |-> r.slug]

\* the error of a write the store has refused: when the store itself worked
\* (ok), the refusal came from the unique index
Rejected(r, ok) == [r EXCEPT !.thrown = IF ok THEN "unique" ELSE "store"]

PostInsert(c) ==
  /\ req[c].kind = "POST" /\ req[c].pc = "insert"
  /\ \E ok \in BOOLEAN :
       LET r == req[c] IN
       IF ok /\ ~IndexRejects(r.slug, 0)
       THEN /\ news' = news @@ (nextId :> PostRow(r))
            /\ nextId' = nextId + 1
            /\ req' = [req EXCEPT ![c] = PostAfterInsert([r EXCEPT !.newsId = nextId])]
       ELSE /\ req' = [req EXCEPT ![c] = Rejected(Respond(r, 500), ok)]
            /\ UNCHANGED <<news, nextId>>
  /\ UNCHANGED <<news_blocks, news_images, news_tags, news_related,
                 schema, blobs, taxonomy, started, last>>

TagRows(id, tags) == [i \in 1..Len(tags) |-> [news_id |-> id, tag_id |-> tags[i]]]

\* blocks.map((block, i) => ({ ..., position: i }))
IndexedBlockRows(id, blocks) == [i \in 1..Len(blocks) |-> BlockRow(id, blocks[i], i - 1)]

PostTags(c) ==
  /\ req[c].kind = "POST" /\ req[c].pc = "tagsIns"
  /\ \E ok \in BOOLEAN :
       LET r == req[c] IN
       IF ok
       THEN /\ news_tags' = news_tags \o TagRows(r.newsId, r.body.tags)
            /\ req' = [req EXCEPT ![c] = PostAfterTags(r)]
       ELSE /\ req' = [req EXCEPT ![c] = Respond(r, 500)]
            /\ UNCHANGED news_tags
  /\ UNCHANGED <<news, nextId, news_blocks, news_images, news_related,
                 schema, blobs, taxonomy, started, last>>

PostBlocks(c) ==
  /\ req[c].kind = "POST" /\ req[c].pc = "blocksIns"
  /\ \E ok \in BOOLEAN :
       LET r == req[c] IN
       IF ok
       THEN /\ news_blocks' = news_blocks \o IndexedBlockRows(r.newsId, r.body.blocks)
            /\ req' = [req EXCEPT ![c] = Respond(r, 201)]
       ELSE /\ req' = [req EXCEPT ![c] = Respond(r, 500)]
            /\ UNCHANGED news_blocks
  /\ UNCHANGED <<news, nextId, news_images, news_tags, news_related,
                 schema, blobs, taxonomy, started, last>>

----------------------------------------------------------------------------
(* server.js: PUT /api/news/:id *)

PutBodies ==
  { With(EmptyBody, "blocks", <<>>),
    With(With(EmptyBody, "blocks", <<BlockIn("z", FALSE, 0)>>), "tags", <<2>>),
    With(EmptyBody, "canonical_slug", <<"a">>),
    With(EmptyBody, "canonical_slug", <<"!">>),
    With(With(EmptyBody, "title", <<"b">>), "tags", <<>>),
    With(EmptyBody, "images", <<ImageIn("u2", FALSE, 0)>>) }

NewsColumns == {"title", "subtitle", "summary", "author_id", "main_category_id",
                "status", "published_at", "is_featured", "canonical_slug"}

\* Object.keys(updateData)
UpdateKeys(body) == body.has \cap NewsColumns

PutAfterTags(r) ==
  IF Defined(r.body, "blocks") THEN [r EXCEPT !.pc = "blocksDel"] ELSE Respond(r, 200)

PutAfterUpdate(r) ==
  IF Defined(r.body, "tags") THEN [r EXCEPT !.pc = "tagsDel"] ELSE PutAfterTags(r)

\* the handler up to its first await, for one id and one request body
PutRequest(c, id, body) ==
    LET first == IF Falsy(body.canonical_slug) THEN Null
                 ELSE generateSlug(body.canonical_slug)
        r0 == [Idle EXCEPT !.kind = "PUT", !.id = id, !.body = body,
                           !.excludeId = id, !.pre = Aggregate(id)]
    IN /\ Begin(c, IF Defined(body, "canonical_slug") /\ ~Falsy(first)
                   THEN [r0 EXCEPT !.pc = "slug", !.baseSlug = first, !.slug = first]
                   ELSE IF UpdateKeys(body) # {}
                   THEN [r0 EXCEPT !.pc = "update", !.slug = first]
                   ELSE PutAfterUpdate(r0))
       /\ UNCHANGED <<store, schema, blobs, taxonomy, last>>

PutStart(c) == \E id \in 1..MaxNews, body \in PutBodies : PutRequest(c, id, body)

\* the row after .update(updateData): only the keys of updateData change
Updated(row, body, finalSlug) ==
  [title |-> IF Defined(body, "title") THEN body.title ELSE row.title,
   subtitle |-> IF Defined(body, "subtitle") THEN body.subtitle ELSE row.subtitle,
   summary |-> IF Defined(body, "summary") THEN body.summary ELSE row.summary,
   author_id |-> IF Defined(body, "author_id") THEN body.author_id ELSE row.author_id,
   main_category_id |-> IF Defined(body, "main_category_id")
                        THEN body.main_category_id ELSE row.main_category_id,
   status |-> IF Defined(body, "status") THEN body.status ELSE row.status,
   published_at |-> IF Defined(body, "published_at")
                    THEN body.published_at ELSE row.published_at,
   is_featured |-> IF Defined(body, "is_featured") THEN body.is_featured ELSE row.is_featured,
   canonical_slug |-> IF Defined(body, "canonical_slug")
                      THEN finalSlug ELSE row.canonical_slug]

PutUpdate(c) ==
  /\ req[c].kind = "PUT" /\ req[c].pc = "update"
  /\ \E ok \in BOOLEAN :
       LET r == req[c]
           rejected == /\ Defined(r.body, "canonical_slug")
                       /\ r.id \in DOMAIN news
                       /\ IndexRejects(r.slug, r.id)
       IN IF ok /\ ~rejected
          THEN /\ news' = [i \in DOMAIN news |->
                             IF i = r.id THEN Updated(news[i], r.body, r.slug) ELSE news[i]]
               /\ req' = [req EXCEPT ![c] = PutAfterUpdate(r)]
          ELSE /\ req' = [req EXCEPT ![c] = Rejected(Respond(r, 500), ok)]
               /\ UNCHANGED news
  /\ UNCHANGED <<nextId, news_blocks, news_images, news_tags, news_related,
                 schema, blobs, taxonomy, started, last>>

\* await supabase.from('news_tags').delete().eq('news_id', id): the result is not inspected
\* const { data } = await <query>, or await <query> alone: the error of a
\* failed call is not read
Unread(r, k, ok) == [r EXCEPT !.readErrors = IF ok THEN @ ELSE @ \cup {k}]

PutTagsDelete(c) ==
  /\ req[c].kind = "PUT" /\ req[c].pc = "tagsDel"
  /\ \E ok \in BOOLEAN :
       LET r == req[c] IN
       /\ news_tags' = IF ok THEN RowsNotOf(news_tags, r.id) ELSE news_tags
       /\ req' = [req EXCEPT ![c] =
                    IF Len(r.body.tags) > 0
                    THEN [Unread(r, "tags", ok) EXCEPT !.pc = "tagsIns"]
                    ELSE PutAfterTags(Unread(r, "tags", ok))]
  /\ UNCHANGED <<news, nextId, news_blocks, news_images, news_related,
                 schema, blobs, taxonomy, started, last>>

PutTagsInsert(c) ==
  /\ req[c].kind = "PUT" /\ req[c].pc = "tagsIns"
  /\ \E ok \in BOOLEAN :
       LET r == req[c] IN
       IF ok /\ ~ParentMissing(r.id)
       THEN /\ news_tags' = news_tags \o TagRows(r.id, r.body.tags)
            /\ req' = [req EXCEPT ![c] = PutAfterTags(r)]
       ELSE /\ req' = [req EXCEPT ![c] = Respond(r, 500)]
            /\ UNCHANGED news_tags
  /\ UNCHANGED <<news, nextId, news_blocks, news_images, news_related,
                 schema, blobs, taxonomy, started, last>>

\* await supabase.from('news_blocks').delete().eq('news_id', id): the result is not inspected
PutBlocksDelete(c) ==
  /\ req[c].kind = "PUT" /\ req[c].pc = "blocksDel"
  /\ \E ok \in BOOLEAN :
       LET r == req[c] IN
       /\ news_blocks' = IF ok THEN RowsNotOf(news_blocks, r.id) ELSE news_blocks
       /\ req' = [req EXCEPT ![c] =
                    IF Len(r.body.blocks) > 0
                    THEN [Unread(r, "blocks", ok) EXCEPT !.pc = "blocksIns"]
                    ELSE Respond(Unread(r, "blocks", ok), 200)]
  /\ UNCHANGED <<news, nextId, news_images, news_tags, news_related,
                 schema, blobs, taxonomy, started, last>>

PutBlocksInsert(c) ==
  /\ req[c].kind = "PUT" /\ req[c].pc = "blocksIns"
  /\ \E ok \in BOOLEAN :
       LET r == req[c] IN
       IF ok /\ ~ParentMissing(r.id)
       THEN /\ news_blocks' = news_blocks \o IndexedBlockRows(r.id, r.body.blocks)
            /\ req' = [req EXCEPT ![c] = Respond(r, 200)]
       ELSE /\ req' = [req EXCEPT ![c] = Respond(r, 500)]
            /\ UNCHANGED news_blocks
  /\ UNCHANGED <<news, nextId, news_images, news_tags, news_related,
                 schema, blobs, taxonomy, started, last>>

----------------------------------------------------------------------------
(* server.js: GET /api/news/:id *)

GetStart(c) ==
  \E id \in 1..MaxNews :
    /\ Begin(c, [Idle EXCEPT !.kind = "GET", !.pc = "select", !.id = id,
                             !.excludeId = id, !.pre = Aggregate(id)])
    /\ UNCHANGED <<store, schema, blobs, taxonomy, last>>

GetSelect(c) ==
  /\ req[c].kind = "GET" /\ req[c].pc = "select"
  /\ \E ok \in BOOLEAN :
       LET r == req[c] IN
       req' = [req EXCEPT ![c] =
         IF ~ok \/ r.id \notin DOMAIN news THEN Respond(r, 404)
         ELSE LET row == news[r.id]
                  r1 == [r EXCEPT !.out.row = row,
                                  !.out.canonical_slug = row.canonical_slug]
                  base == generateSlug(IF Falsy(row.title) THEN SeedOf(r.id) ELSE row.title)
              IN IF Falsy(row.canonical_slug)
                 THEN [r1 EXCEPT !.pc = "slug", !.baseSlug = base, !.slug = base]
                 ELSE [r1 EXCEPT !.pc = "images"]]
  /\ UNCHANGED <<store, schema, blobs, taxonomy, started, last>>

\* the resolved slug is put in the response without being persisted
GetBackfillUnsaved(c) ==
  /\ req[c].kind = "GET" /\ req[c].pc = "backfill"
  /\ req' = [req EXCEPT ![c] = [req[c] EXCEPT !.pc = "images",
                                              !.out.canonical_slug = req[c].slug]]
  /\ UNCHANGED <<store, schema, blobs, taxonomy, started, last>>

\* lazy backfill: persist the resolved slug; a failed update is only logged
GetBackfill(c) ==
  /\ req[c].kind = "GET" /\ req[c].pc = "backfill"
  /\ \E ok \in BOOLEAN :
       LET r == req[c]
           rejected == r.id \in DOMAIN news /\ IndexRejects(r.slug, r.id)
       IN IF ok /\ ~rejected
          THEN /\ news' = [i \in DOMAIN news |->
                             IF i = r.id THEN [news[i] EXCEPT !.canonical_slug = r.slug]
                             ELSE news[i]]
               /\ req' = [req EXCEPT ![c] = [r EXCEPT !.pc = "images",
                                                      !.out.canonical_slug = r.slug]]
          ELSE /\ req' = [req EXCEPT ![c] = [r EXCEPT !.pc = "images",
                                                      !.readErrors = @ \cup {"backfill"}]]
               /\ UNCHANGED news
  /\ UNCHANGED <<nextId, news_blocks, news_images, news_tags, news_related,
                 schema, blobs, taxonomy, started, last>>

\* const { data } = await <query>; data || [] : a failed query reads as no rows.
\* readErrors keeps which of the queries failed.
ReadInto(r, k, rows, ok) ==
  [r EXCEPT !.out[k] = IF ok THEN rows ELSE <<>>,
            !.readErrors = IF ok THEN @ ELSE @ \cup {k}]

GetImages(c) ==
  /\ req[c].kind = "GET" /\ req[c].pc = "images"
  /\ \E rows \in OrderedReads(news_images, req[c].id), ok \in BOOLEAN :
       req' = [req EXCEPT ![c] = [ReadInto(req[c], "images", rows, ok) EXCEPT !.pc = "blocks"]]
  /\ UNCHANGED <<store, schema, blobs, taxonomy, started, last>>

GetBlocks(c) ==
  /\ req[c].kind = "GET" /\ req[c].pc = "blocks"
  /\ \E rows \in OrderedReads(news_blocks, req[c].id), ok \in BOOLEAN :
       req' = [req EXCEPT ![c] = [ReadInto(req[c], "blocks", rows, ok) EXCEPT !.pc = "tags"]]
  /\ UNCHANGED <<store, schema, blobs, taxonomy, started, last>>

GetTags(c) ==
  /\ req[c].kind = "GET" /\ req[c].pc = "tags"
  /\ \E ok \in BOOLEAN :
       req' = [req EXCEPT ![c] =
                 [ReadInto(req[c], "tags", RowsOf(news_tags, req[c].id), ok)
                    EXCEPT !.pc = "related"]]
  /\ UNCHANGED <<store, schema, blobs, taxonomy, started, last>>

GetRelated(c) ==
  /\ req[c].kind = "GET" /\ req[c].pc = "related"
  /\ \E ok \in BOOLEAN :
       req' = [req EXCEPT ![c] =
                 Respond(ReadInto(req[c], "related", RowsOf(news_related, req[c].id), ok), 200)]
  /\ UNCHANGED <<store, schema, blobs, taxonomy, started, last>>

----------------------------------------------------------------------------

\* the steps of the requests of client c
Handlers(c) ==
  \/ PostStart(c) \/ PostInsert(c) \/ PostTags(c) \/ PostBlocks(c)
  \/ PutStart(c) \/ PutUpdate(c) \/ PutTagsDelete(c) \/ PutTagsInsert(c)
  \/ PutBlocksDelete(c) \/ PutBlocksInsert(c)
  \/ GetStart(c) \/ GetSelect(c) \/ GetBackfill(c) \/ GetImages(c)
  \/ GetBlocks(c) \/ GetTags(c) \/ GetRelated(c)
  \/ ensureUniqueSlug(c)

Next == \E c \in Clients : Handlers(c)

Spec == Init /\ [][Next]_vars

\* reads by id next to updates that set a slug of their own
PutSlugStart(c) ==
  \E id \in 1..MaxNews : PutRequest(c, id, With(EmptyBody, "canonical_slug", <<"b">>))

NextBackfill ==
  \E c \in Clients :
    \/ PutSlugStart(c) \/ PutUpdate(c)
    \/ GetStart(c) \/ GetSelect(c) \/ GetBackfill(c) \/ GetImages(c)
    \/ GetBlocks(c) \/ GetTags(c) \/ GetRelated(c)
    \/ ensureUniqueSlug(c)

SpecBackfill == Init /\ [][NextBackfill]_vars

\* the same server with its requests arriving one after the other
NextSeq == Handlers("c1")

SpecSeq == InitSeq /\ [][NextSeq]_vars

----------------------------------------------------------------------------
(* The copies of ensureUniqueSlug, each called once against a store that   *)
(* does not change during the call: the store holds a family baseSlug,     *)
(* baseSlug-1, baseSlug-2, ... one row per slug.                           *)

ResolverCopies == {"server", "server2", "migrate"}

Base == <<"a">>

\* the candidates in the order every copy tries them
Candidate(baseSlug, k) == IF k = 0 THEN baseSlug ELSE Suffixed(baseSlug, k)

\* row i of a family whose smallest free candidate is number free
HeldIndex(i, free) == IF i - 1 < free THEN i - 1 ELSE i

Family(k, free) == [i \in 1..k |-> InitRow(Candidate(Base, HeldIndex(i, free)))]

\* the state of a copy when it is entered
Call(copy, excludeId) ==
  [Idle EXCEPT !.kind = copy,
               !.pc = CASE copy = "server" -> "slug"
                        [] copy = "server2" -> "slug2"
                        [] copy = "migrate" -> "slugMigrate",
               !.baseSlug = Base, !.slug = Base,
               !.counter = IF copy = "migrate" THEN 1 ELSE 0,
               !.excludeId = excludeId]

InitResolve ==
  /\ \E k \in 0..MaxHeld, free \in (0..MaxFree) \cup {MaxHeld} :
       /\ news = Family(k, free)
       /\ nextId = k + 1
  /\ news_blocks = <<>>
  /\ news_images = <<>>
  /\ news_tags = <<>>
  /\ news_related = <<>>
  /\ uniqueIndex = TRUE
  /\ onDelete = "none"
  /\ categories = InitCategories
  /\ authors = InitAuthors
  /\ blobs = {}
  /\ \E copy \in ResolverCopies, excludeId \in {0, 1} :
       /\ copy = "migrate" => excludeId = 0
       /\ req = [c \in Clients |-> IF c = "c1" THEN Call(copy, excludeId) ELSE Idle]
  /\ started = 0
  /\ last = NoRequest

\* second server (src/server.js 1193-1222): while (true)
ensureUniqueSlug2(c) ==
  /\ req[c].pc = "slug2"
  /\ \E ok \in BOOLEAN :
       LET r == [req[c] EXCEPT !.queries = @ + 1]
           rows == Holders(r.slug, r.excludeId)
       IN req' = [req EXCEPT ![c] =
            IF ~ok THEN SlugThrows(r, "store")
            ELSE IF rows = {} THEN SlugReturns(r, r.slug)
            ELSE [r EXCEPT !.slug = Suffixed(r.baseSlug, r.counter + 1),
                           !.counter = r.counter + 1]]
  /\ UNCHANGED <<store, schema, blobs, taxonomy, started, last>>

\* .maybeSingle(): data is the row when exactly one row matches, else null
\* (with an error when the query fails or several rows match)
MaybeSingle(rows, ok) == IF ok /\ Cardinality(rows) = 1 THEN rows ELSE {}

\* migration script (src/migrate-slugs.js 23-39): while (true), the error
\* of the query is not read
ensureUniqueSlugMigrate(c) ==
  /\ req[c].pc = "slugMigrate"
  /\ \E ok \in BOOLEAN :
       LET r == [req[c] EXCEPT !.queries = @ + 1]
           rows == Holders(r.slug, 0)
           data == MaybeSingle(rows, ok)
           failed == ~ok \/ Cardinality(rows) > 1
       IN req' = [req EXCEPT ![c] =
            IF data = {}
            THEN SlugReturns([r EXCEPT !.readErrors =
                                IF failed THEN @ \cup {"slug"} ELSE @], r.slug)
            ELSE [r EXCEPT !.slug = Suffixed(r.baseSlug, r.counter),
                           !.counter = r.counter + 1]]
  /\ UNCHANGED <<store, schema, blobs, taxonomy, started, last>>

NextResolve ==
  \E c \in Clients :
    ensureUniqueSlug(c) \/ ensureUniqueSlug2(c) \/ ensureUniqueSlugMigrate(c)

SpecResolve == InitResolve /\ [][NextResolve]_vars

----------------------------------------------------------------------------
(* generateSlug, both copies, applied to one text each.                    *)

RECURSIVE Texts(_)
Texts(n) ==
  IF n = 0 THEN {<<>>}
  ELSE Texts(n - 1)
         \cup {<<ch>> \o t : ch \in {"a", "A", "e_acute", " ", "-", "_", "!", "1"},
                              t \in {u \in Texts(n - 1) : Len(u) = n - 1}}

CafeConLeche == <<"C", "a", "f", "e_acute", " ", "c", "o", "n", " ",
                  "L", "e", "c", "h", "e", "!", "!">>

InitSlug ==
  /\ news = <<>>
  /\ nextId = 1
  /\ news_blocks = <<>>
  /\ news_images = <<>>
  /\ news_tags = <<>>
  /\ news_related = <<>>
  /\ uniqueIndex = TRUE
  /\ onDelete = "none"
  /\ categories = InitCategories
  /\ authors = InitAuthors
  /\ blobs = {}
  /\ \E copy \in {"generateSlug", "generateSlugMigrate"},
        text \in Texts(MaxLen) \cup {CafeConLeche} :
       req = [c \in Clients |->
                IF c = "c1"
                THEN [Idle EXCEPT !.kind = copy, !.pc = "call",
                                  !.body = With(EmptyBody, "title", text)]
                ELSE Idle]
  /\ started = 0
  /\ last = NoRequest

\* generateSlug(text) of the servers
ApplyGenerateSlug(c) ==
  /\ req[c].kind = "generateSlug" /\ req[c].pc = "call"
  /\ req' = [req EXCEPT ![c] = [req[c] EXCEPT !.pc = "done",
                                              !.slug = generateSlug(req[c].body.title)]]
  /\ UNCHANGED <<store, schema, blobs, taxonomy, started, last>>

\* generateSlug(text) of the migration script
ApplyGenerateSlugMigrate(c) ==
  /\ req[c].kind = "generateSlugMigrate" /\ req[c].pc = "call"
  /\ req' = [req EXCEPT ![c] = [req[c] EXCEPT !.pc = "done",
                                              !.slug = generateSlugMigrate(req[c].body.title)]]
  /\ UNCHANGED <<store, schema, blobs, taxonomy, started, last>>

NextSlug == \E c \in Clients : ApplyGenerateSlug(c) \/ ApplyGenerateSlugMigrate(c)

SpecSlug == InitSlug /\ [][NextSlug]_vars

----------------------------------------------------------------------------
(* Categories and authors: the delete handlers, one awaited call per step. *)

CategoryIds == {"1", "2", "3", "4", "5"}

\* SELECT id FROM categories WHERE parent_id = id
HasChildren(id) == \E k \in DOMAIN categories : categories[k] = id

\* SELECT id FROM news WHERE main_category_id = id LIMIT 1
NewsInCategory(id) == \E i \in DOMAIN news : news[i].main_category_id = id

\* SELECT id FROM news WHERE author_id = id LIMIT 1
NewsByAuthor(id) == \E i \in DOMAIN news : news[i].author_id = id

\* news 1 is in category 3 and written by author 1; a cascading rule on
\* categories or authors is not considered
InitTax ==
  /\ news = (1 :> [InitRow(<<"a">>) EXCEPT !.main_category_id = "3", !.author_id = "1"])
  /\ nextId = 2
  /\ news_blocks = InitBlocks
  /\ news_images = InitImages
  /\ news_tags = InitTags
  /\ news_related = <<>>
  /\ uniqueIndex = TRUE
  /\ onDelete \in {"restrict", "none"}
  /\ categories = InitCategories
  /\ authors = InitAuthors
  /\ blobs = {}
  /\ req = [c \in Clients |-> Idle]
  /\ started = 0
  /\ last = NoRequest

\* the store rejects the DELETE of a category
CategoryDeleteFails(id, ok) ==
  ~ok \/ (onDelete = "restrict" /\ (HasChildren(id) \/ NewsInCategory(id)))

\* the store rejects the DELETE of an author
AuthorDeleteFails(id, ok) == ~ok \/ (onDelete = "restrict" /\ NewsByAuthor(id))

CategoryDeleteStart(c) ==
  \E id \in CategoryIds :
    /\ Begin(c, [Idle EXCEPT !.kind = "DELETE category", !.pc = "existing", !.ref = id])
    /\ UNCHANGED <<store, schema, blobs, taxonomy, last>>

CategoryExisting(c) ==
  /\ req[c].kind = "DELETE category" /\ req[c].pc = "existing"
  /\ \E ok \in BOOLEAN :
       req' = [req EXCEPT ![c] =
                 IF ok /\ req[c].ref \in DOMAIN categories
                 THEN [req[c] EXCEPT !.pc = "children"]
                 ELSE Respond(Unread(req[c], "existing", ok), 404)]
  /\ UNCHANGED <<store, schema, blobs, taxonomy, started, last>>

CategoryChildren(c) ==
  /\ req[c].kind = "DELETE category" /\ req[c].pc = "children"
  /\ \E ok \in BOOLEAN :
       req' = [req EXCEPT ![c] =
                 IF ok /\ HasChildren(req[c].ref)
                 THEN Respond(req[c], 400)
                 ELSE [Unread(req[c], "children", ok) EXCEPT !.pc = "newsRows"]]
  /\ UNCHANGED <<store, schema, blobs, taxonomy, started, last>>

CategoryNewsRows(c) ==
  /\ req[c].kind = "DELETE category" /\ req[c].pc = "newsRows"
  /\ \E ok \in BOOLEAN :
       req' = [req EXCEPT ![c] =
                 IF ok /\ NewsInCategory(req[c].ref)
                 THEN Respond(req[c], 400)
                 ELSE [Unread(req[c], "newsRows", ok) EXCEPT !.pc = "delete"]]
  /\ UNCHANGED <<store, schema, blobs, taxonomy, started, last>>

CategoryDelete(c) ==
  /\ req[c].kind = "DELETE category" /\ req[c].pc = "delete"
  /\ \E ok \in BOOLEAN :
       IF CategoryDeleteFails(req[c].ref, ok)
       THEN /\ req' = [req EXCEPT ![c] = Respond(req[c], 500)]
            /\ UNCHANGED categories
       ELSE /\ req' = [req EXCEPT ![c] = Respond(req[c], 200)]
            /\ categories' = [k \in DOMAIN categories \ {req[c].ref} |-> categories[k]]
  /\ UNCHANGED <<store, schema, blobs, authors, started, last>>

\* mysql server (src/migrate-slugs.js 953-989): a failed statement throws
MysqlCategoryDeleteStart(c) ==
  \E id \in CategoryIds :
    /\ Begin(c, [Idle EXCEPT !.kind = "DELETE category mysql", !.pc = "existing", !.ref = id])
    /\ UNCHANGED <<store, schema, blobs, taxonomy, last>>

MysqlCategoryExisting(c) ==
  /\ req[c].kind = "DELETE category mysql" /\ req[c].pc = "existing"
  /\ \E ok \in BOOLEAN :
       req' = [req EXCEPT ![c] =
                 IF ~ok THEN [Respond(req[c], 500) EXCEPT !.thrown = "store"]
                 ELSE IF req[c].ref \notin DOMAIN categories THEN Respond(req[c], 404)
                 ELSE [req[c] EXCEPT !.pc = "children"]]
  /\ UNCHANGED <<store, schema, blobs, taxonomy, started, last>>

MysqlCategoryChildren(c) ==
  /\ req[c].kind = "DELETE category mysql" /\ req[c].pc = "children"
  /\ \E ok \in BOOLEAN :
       req' = [req EXCEPT ![c] =
                 IF ~ok THEN [Respond(req[c], 500) EXCEPT !.thrown = "store"]
                 ELSE IF HasChildren(req[c].ref) THEN Respond(req[c], 400)
                 ELSE [req[c] EXCEPT !.pc = "newsRows"]]
  /\ UNCHANGED <<store, schema, blobs, taxonomy, started, last>>

MysqlCategoryNewsRows(c) ==
  /\ req[c].kind = "DELETE category mysql" /\ req[c].pc = "newsRows"
  /\ \E ok \in BOOLEAN :
       req' = [req EXCEPT ![c] =
                 IF ~ok THEN [Respond(req[c], 500) EXCEPT !.thrown = "store"]
                 ELSE IF NewsInCategory(req[c].ref) THEN Respond(req[c], 400)
                 ELSE [req[c] EXCEPT !.pc = "delete"]]
  /\ UNCHANGED <<store, schema, blobs, taxonomy, started, last>>

MysqlCategoryDelete(c) ==
  /\ req[c].kind = "DELETE category mysql" /\ req[c].pc = "delete"
  /\ \E ok \in BOOLEAN :
       IF CategoryDeleteFails(req[c].ref, ok)
       THEN /\ req' = [req EXCEPT ![c] = [Respond(req[c], 500) EXCEPT !.thrown = "store"]]
            /\ UNCHANGED categories
       ELSE /\ req' = [req EXCEPT ![c] =
                         Respond(req[c], IF req[c].ref \in DOMAIN categories
                                         THEN 200 ELSE 500)]
            /\ categories' = [k \in DOMAIN categories \ {req[c].ref} |-> categories[k]]
  /\ UNCHANGED <<store, schema, blobs, authors, started, last>>

\* server.js app.delete('/api/authors/:id')
AuthorDeleteStart(c) ==
  \E id \in {"1", "2", "3"} :
    /\ Begin(c, [Idle EXCEPT !.kind = "DELETE author", !.pc = "existing", !.ref = id])
    /\ UNCHANGED <<store, schema, blobs, taxonomy, last>>

AuthorExisting(c) ==
  /\ req[c].kind = "DELETE author" /\ req[c].pc = "existing"
  /\ \E ok \in BOOLEAN :
       req' = [req EXCEPT ![c] =
                 IF ok /\ req[c].ref \in authors
                 THEN [req[c] EXCEPT !.pc = "newsRows"]
                 ELSE Respond(Unread(req[c], "existing", ok), 404)]
  /\ UNCHANGED <<store, schema, blobs, taxonomy, started, last>>

AuthorNewsRows(c) ==
  /\ req[c].kind = "DELETE author" /\ req[c].pc = "newsRows"
  /\ \E ok \in BOOLEAN :
       req' = [req EXCEPT ![c] =
                 IF ok /\ NewsByAuthor(req[c].ref)
                 THEN Respond(req[c], 400)
                 ELSE [Unread(req[c], "newsRows", ok) EXCEPT !.pc = "delete"]]
  /\ UNCHANGED <<store, schema, blobs, taxonomy, started, last>>

AuthorDelete(c) ==
  /\ req[c].kind = "DELETE author" /\ req[c].pc = "delete"
  /\ \E ok \in BOOLEAN :
       IF AuthorDeleteFails(req[c].ref, ok)
       THEN /\ req' = [req EXCEPT ![c] = Respond(req[c], 500)]
            /\ UNCHANGED authors
       ELSE /\ req' = [req EXCEPT ![c] = Respond(req[c], 200)]
            /\ authors' = authors \ {req[c].ref}
  /\ UNCHANGED <<store, schema, blobs, categories, started, last>>

NextTax ==
  \E c \in Clients :
    \/ CategoryDeleteStart(c) \/ CategoryExisting(c) \/ CategoryChildren(c)
    \/ CategoryNewsRows(c) \/ CategoryDelete(c)
    \/ MysqlCategoryDeleteStart(c) \/ MysqlCategoryExisting(c) \/ MysqlCategoryChildren(c)
    \/ MysqlCategoryNewsRows(c) \/ MysqlCategoryDelete(c)
    \/ AuthorDeleteStart(c) \/ AuthorExisting(c) \/ AuthorNewsRows(c) \/ AuthorDelete(c)

SpecTax == InitTax /\ [][NextTax]_vars

----------------------------------------------------------------------------
(* Categories: create, update and delete interleaved, and news created in  *)
(* a category.  The tables carry no foreign key to categories.             *)

\* the id the store gives to the category created next
NewCategoryId == "6"

CategoryBody(has, parent_id) ==
  [EmptyBody EXCEPT !.has = has, !.name = "n1", !.slug = <<"a">>, !.parent_id = parent_id]

CategoryPostBodies ==
  { CategoryBody({"name", "slug", "parent_id"}, "4"),
    CategoryBody({"name", "slug"}, NullAtom),
    CategoryBody({"slug"}, NullAtom) }

CategoryPutBodies ==
  { CategoryBody({"parent_id"}, k) : k \in {"1", "2", "4", "5", NullAtom} }
    \cup { CategoryBody({"name"}, NullAtom), CategoryBody({}, NullAtom) }

InitCat ==
  /\ news = (1 :> [InitRow(<<"a">>) EXCEPT !.main_category_id = "3", !.author_id = "1"])
  /\ nextId = 2
  /\ news_blocks = InitBlocks
  /\ news_images = InitImages
  /\ news_tags = InitTags
  /\ news_related = <<>>
  /\ uniqueIndex = TRUE
  /\ onDelete = "none"
  /\ categories = InitCategories
  /\ authors = InitAuthors
  /\ blobs = {}
  /\ req = [c \in Clients |-> Idle]
  /\ started = 0
  /\ last = NoRequest

\* server.js app.post('/api/categories')
CategoryPostStart(c) ==
  \E body \in CategoryPostBodies :
    LET r0 == [Idle EXCEPT !.kind = "POST category", !.body = body] IN
    /\ NewCategoryId \notin DOMAIN categories
    /\ \A d \in Clients : ~(req[d].kind = "POST category" /\ InFlight(d))
    /\ Begin(c, IF ~Defined(body, "name") \/ ~Defined(body, "slug") THEN Respond(r0, 400)
                ELSE IF Defined(body, "parent_id") /\ body.parent_id # NullAtom
                THEN [r0 EXCEPT !.pc = "parent"]
                ELSE [r0 EXCEPT !.pc = "insert"])
    /\ UNCHANGED <<store, schema, blobs, taxonomy, last>>

CategoryPostParent(c) ==
  /\ req[c].kind = "POST category" /\ req[c].pc = "parent"
  /\ \E ok \in BOOLEAN :
       req' = [req EXCEPT ![c] =
                 IF ok /\ req[c].body.parent_id \in DOMAIN categories
                 THEN [req[c] EXCEPT !.pc = "insert"]
                 ELSE Respond(Unread(req[c], "parent", ok), 400)]
  /\ UNCHANGED <<store, schema, blobs, taxonomy, started, last>>

CategoryPostInsert(c) ==
  /\ req[c].kind = "POST category" /\ req[c].pc = "insert"
  /\ \E ok \in BOOLEAN :
       IF ok
       THEN /\ categories' = categories @@ (NewCategoryId :> Column(req[c].body, "parent_id"))
            /\ req' = [req EXCEPT ![c] = [Respond(req[c], 201) EXCEPT !.ref = NewCategoryId]]
       ELSE /\ req' = [req EXCEPT ![c] = [Respond(req[c], 500) EXCEPT !.thrown = "store"]]
            /\ UNCHANGED categories
  /\ UNCHANGED <<store, schema, blobs, authors, started, last>>

\* the PUT handlers once the category itself was found: the self-parent
\* test, then the parent lookup or the list of fields to write
CategoryPutFound(r, fields) ==
  IF r.body.parent_id # NullAtom /\ r.body.parent_id = r.ref THEN Respond(r, 400)
  ELSE IF r.body.parent_id # NullAtom THEN [r EXCEPT !.pc = "parent"]
  ELSE IF fields = {} THEN Respond(r, 400)
  ELSE [r EXCEPT !.pc = "update"]

\* UPDATE categories SET ... WHERE id = r.ref
CategoryUpdated(r, setsParent) ==
  IF setsParent /\ r.ref \in DOMAIN categories
  THEN [categories EXCEPT ![r.ref] = r.body.parent_id]
  ELSE categories

\* server.js app.put('/api/categories/:id')
CategoryPutStart(c) ==
  \E id \in CategoryIds, body \in CategoryPutBodies :
    /\ Begin(c, [Idle EXCEPT !.kind = "PUT category", !.pc = "existing",
                             !.ref = id, !.body = body])
    /\ UNCHANGED <<store, schema, blobs, taxonomy, last>>

CategoryPutExisting(c) ==
  /\ req[c].kind = "PUT category" /\ req[c].pc = "existing"
  /\ \E ok \in BOOLEAN :
       req' = [req EXCEPT ![c] =
                 IF ok /\ req[c].ref \in DOMAIN categories
                 THEN CategoryPutFound(req[c], req[c].body.has)
                 ELSE Respond(Unread(req[c], "existing", ok), 404)]
  /\ UNCHANGED <<store, schema, blobs, taxonomy, started, last>>

CategoryPutParent(c) ==
  /\ req[c].kind = "PUT category" /\ req[c].pc = "parent"
  /\ \E ok \in BOOLEAN :
       req' = [req EXCEPT ![c] =
                 IF ok /\ req[c].body.parent_id \in DOMAIN categories
                 THEN [req[c] EXCEPT !.pc = "update"]
                 ELSE Respond(Unread(req[c], "parent", ok), 400)]
  /\ UNCHANGED <<store, schema, blobs, taxonomy, started, last>>

CategoryPutUpdate(c) ==
  /\ req[c].kind = "PUT category" /\ req[c].pc = "update"
  /\ \E ok \in BOOLEAN :
       IF ok
       THEN /\ categories' = CategoryUpdated(req[c], Defined(req[c].body, "parent_id"))
            /\ req' = [req EXCEPT ![c] = Respond(req[c], 200)]
       ELSE /\ req' = [req EXCEPT ![c] = [Respond(req[c], 500) EXCEPT !.thrown = "store"]]
            /\ UNCHANGED categories
  /\ UNCHANGED <<store, schema, blobs, authors, started, last>>

\* mysql server (src/migrate-slugs.js 890-949): parent_id defaults to null,
\* so it is always among the fields written; a failed statement throws
MysqlCategoryPutStart(c) ==
  \E id \in CategoryIds, body \in CategoryPutBodies :
    /\ Begin(c, [Idle EXCEPT !.kind = "PUT category mysql", !.pc = "existing",
                             !.ref = id, !.body = body])
    /\ UNCHANGED <<store, schema, blobs, taxonomy, last>>

MysqlCategoryPutExisting(c) ==
  /\ req[c].kind = "PUT category mysql" /\ req[c].pc = "existing"
  /\ \E ok \in BOOLEAN :
       req' = [req EXCEPT ![c] =
                 IF ~ok THEN [Respond(req[c], 500) EXCEPT !.thrown = "store"]
                 ELSE IF req[c].ref \notin DOMAIN categories THEN Respond(req[c], 404)
                 ELSE CategoryPutFound(req[c], {"parent_id"})]
  /\ UNCHANGED <<store, schema, blobs, taxonomy, started, last>>

MysqlCategoryPutParent(c) ==
  /\ req[c].kind = "PUT category mysql" /\ req[c].pc = "parent"
  /\ \E ok \in BOOLEAN :
       req' = [req EXCEPT ![c] =
                 IF ~ok THEN [Respond(req[c], 500) EXCEPT !.thrown = "store"]
                 ELSE IF req[c].body.parent_id \notin DOMAIN categories THEN Respond(req[c], 400)
                 ELSE [req[c] EXCEPT !.pc = "update"]]
  /\ UNCHANGED <<store, schema, blobs, taxonomy, started, last>>

MysqlCategoryPutUpdate(c) ==
  /\ req[c].kind = "PUT category mysql" /\ req[c].pc = "update"
  /\ \E ok \in BOOLEAN :
       IF ok
       THEN /\ categories' = CategoryUpdated(req[c], TRUE)
            /\ req' = [req EXCEPT ![c] = Respond(req[c], 200)]
       ELSE /\ req' = [req EXCEPT ![c] = [Respond(req[c], 500) EXCEPT !.thrown = "store"]]
            /\ UNCHANGED categories
  /\ UNCHANGED <<store, schema, blobs, authors, started, last>>

\* server.js app.post('/api/news') with a main_category_id
PostInCategoryStart(c) ==
  \E k \in {"3", "4"} :
    PostRequest(c, With(With(EmptyBody, "title", <<"b">>), "main_category_id", k))

NextCat ==
  \E c \in Clients :
    \/ CategoryPostStart(c) \/ CategoryPostParent(c) \/ CategoryPostInsert(c)
    \/ CategoryPutStart(c) \/ CategoryPutExisting(c) \/ CategoryPutParent(c)
    \/ CategoryPutUpdate(c)
    \/ MysqlCategoryPutStart(c) \/ MysqlCategoryPutExisting(c) \/ MysqlCategoryPutParent(c)
    \/ MysqlCategoryPutUpdate(c)
    \/ CategoryDeleteStart(c) \/ CategoryExisting(c) \/ CategoryChildren(c)
    \/ CategoryNewsRows(c) \/ CategoryDelete(c)
    \/ PostInCategoryStart(c) \/ ensureUniqueSlug(c) \/ PostInsert(c)

SpecCat == InitCat /\ [][NextCat]_vars

----------------------------------------------------------------------------
(* server.js: POST /api/news/:id/images.  A URL is kept as the list of its *)
(* parts between slashes, each part a list of characters; a public id is   *)
(* a text with its slashes.                                                *)

\* req.file is undefined
NoFile == <<>>

\* the result null of getPublicIdFromCloudinaryUrl
NoPublicId == <<>>

\* the name the image store gives to the image of the n-th request
BlobNames(n) == { <<"i">> \o NumText(n), <<"v">> \o NumText(n) }

\* params.folder 'news': the public id of an image stored under a name
PublicIdOf(name) == <<"n", "e", "w", "s", "/">> \o name

\* req.file.path, as in
\* https://res.cloudinary.com/dcp1ohnjl/image/upload/v1768964286/news/name.jpg
UrlOf(name) ==
  << <<"https:">>, <<>>, <<"res.cloudinary.com">>, <<"dcp1ohnjl">>, <<"image">>,
     <<"upload">>, <<"v", "1", "7">>, <<"n", "e", "w", "s">>, name \o <<".", "j", "p", "g">> >>

\* /^v\d+$/.test(part)
IsVersion(part) ==
  Len(part) >= 2 /\ part[1] = "v" /\ \A i \in 2..Len(part) : part[i] \in {Digit(d) : d \in 0..9}

\* last.replace(/\.[^/.]+$/, '')
StripExtension(part) ==
  LET dots == {i \in 1..(Len(part) - 1) :
                 part[i] = "." /\ \A j \in (i + 1)..Len(part) : part[j] # "."}
  IN IF dots = {} THEN part ELSE SubSeq(part, 1, (CHOOSE i \in dots : TRUE) - 1)

\* publicParts.join('/')
RECURSIVE JoinSlash(_)
JoinSlash(parts) ==
  IF Len(parts) = 0 THEN <<>>
  ELSE IF Len(parts) = 1 THEN parts[1]
  ELSE parts[1] \o <<"/">> \o JoinSlash(Tail(parts))

\* the extension is left on the last part
getPublicIdWithExtension(url) ==
  LET ups == {i \in 1..Len(url) : url[i] = <<"upload">>} IN
  IF url = NoFile \/ ups = {} THEN NoPublicId
  ELSE LET uploadIndex == CHOOSE i \in ups : \A j \in ups : i <= j
           after == SubSeq(url, uploadIndex + 1, Len(url))
           publicParts == IF Len(after) > 0 /\ IsVersion(after[1]) THEN Tail(after) ELSE after
       IN IF Len(publicParts) = 0 THEN NoPublicId ELSE JoinSlash(publicParts)

getPublicIdFromCloudinaryUrl(url) ==
  LET ups == {i \in 1..Len(url) : url[i] = <<"upload">>} IN
  IF url = NoFile \/ ups = {} THEN NoPublicId
  ELSE LET uploadIndex == CHOOSE i \in ups : \A j \in ups : i <= j
           after == SubSeq(url, uploadIndex + 1, Len(url))
           publicParts == IF Len(after) > 0 /\ IsVersion(after[1]) THEN Tail(after) ELSE after
       IN IF Len(publicParts) = 0 THEN NoPublicId
          ELSE JoinSlash(SubSeq(publicParts, 1, Len(publicParts) - 1)
                           \o <<StripExtension(publicParts[Len(publicParts)])>>)

InitUpload ==
  /\ news = (1 :> InitRow(<<"a">>))
  /\ nextId = 2
  /\ news_blocks = <<>>
  /\ news_images = <<>>
  /\ news_tags = <<>>
  /\ news_related = <<>>
  /\ uniqueIndex = TRUE
  /\ onDelete \in {"restrict", "none"}
  /\ categories = InitCategories
  /\ authors = InitAuthors
  /\ blobs = {}
  /\ req = [c \in Clients |-> Idle]
  /\ started = 0
  /\ last = NoRequest

\* upload.single('image'): the file, when the request has one, is in the
\* image store before the handler runs
UploadStart(c) ==
  \E id \in 1..MaxNews, hasFile \in BOOLEAN, name \in BlobNames(started + 1) :
    LET r0 == [Idle EXCEPT !.kind = "POST image", !.pc = "existing", !.id = id] IN
    /\ Begin(c, IF hasFile THEN [r0 EXCEPT !.file = UrlOf(name), !.publicId = PublicIdOf(name)]
                ELSE r0)
    /\ blobs' = IF hasFile THEN blobs \cup {PublicIdOf(name)} ELSE blobs
    /\ UNCHANGED <<store, schema, taxonomy, last>>

\* where the handler goes when it gives up with status: it first destroys
\* the image whose public id it reads from the URL
UploadGivesUp(r, status) ==
  IF r.file # NoFile /\ getPublicIdFromCloudinaryUrl(r.file) # NoPublicId
  THEN [r EXCEPT !.pc = "destroy", !.status = status]
  ELSE Respond(r, status)

UploadExisting(c) ==
  /\ req[c].kind = "POST image" /\ req[c].pc = "existing"
  /\ \E ok \in BOOLEAN :
       req' = [req EXCEPT ![c] =
                 IF ~ok \/ req[c].id \notin DOMAIN news THEN UploadGivesUp(req[c], 404)
                 ELSE IF req[c].file = NoFile THEN Respond(req[c], 400)
                 ELSE [req[c] EXCEPT !.pc = "insert"]]
  /\ UNCHANGED <<store, schema, blobs, taxonomy, started, last>>

UploadInsert(c) ==
  /\ req[c].kind = "POST image" /\ req[c].pc = "insert"
  /\ \E ok \in BOOLEAN :
       LET r == req[c] IN
       IF ok /\ ~ParentMissing(r.id)
       THEN /\ news_images' = Append(news_images,
                                [news_id |-> r.id, url |-> r.file, caption |-> NullAtom,
                                 alt_text |-> NullAtom, position |-> 0])
            /\ req' = [req EXCEPT ![c] = Respond(r, 201)]
       ELSE /\ req' = [req EXCEPT ![c] = [UploadGivesUp(r, 500) EXCEPT !.thrown = "store"]]
            /\ UNCHANGED news_images
  /\ UNCHANGED <<news, nextId, news_blocks, news_tags, news_related,
                 schema, blobs, taxonomy, started, last>>

\* try { await cloudinary.uploader.destroy(pubId) } catch (e) { }
UploadDestroy(c) ==
  /\ req[c].kind = "POST image" /\ req[c].pc = "destroy"
  /\ \E ok \in BOOLEAN :
       /\ blobs' = IF ok THEN blobs \ {getPublicIdFromCloudinaryUrl(req[c].file)} ELSE blobs
       /\ req' = [req EXCEPT ![c] =
                    [req[c] EXCEPT !.pc = "done",
                                   !.readErrors = IF ok THEN @ ELSE @ \cup {"destroy"}]]
  /\ UNCHANGED <<store, schema, taxonomy, started, last>>

NextUpload ==
  \E c \in Clients :
    UploadStart(c) \/ UploadExisting(c) \/ UploadInsert(c) \/ UploadDestroy(c)

SpecUpload == InitUpload /\ [][NextUpload]_vars

----------------------------------------------------------------------------
(* news.controller (src/migrate-slugs.js 80-380): each handler runs in one *)
(* transaction on its own connection, so it is one step: it commits all   *)
(* its writes or, when a statement fails, rolls all of them back.          *)

FullFields(title, subtitle, published_at) ==
  With(With(With(With(With(With(With(EmptyBody, "title", title), "subtitle", subtitle),
    "summary", "m1"), "author_id", "1"), "main_category_id", "1"),
    "status", "published"), "published_at", published_at)

CtlCreateBodies ==
  { With(With(FullFields(<<"a">>, "s2", "d2"), "blocks",
              <<BlockIn("x", FALSE, 0), BlockIn("y", FALSE, 0)>>), "tags", <<1>>),
    With(With(FullFields(<<"b">>, "s2", "d2"), "blocks",
              <<BlockIn("x", TRUE, 2), BlockIn("y", TRUE, 1)>>),
         "images", <<ImageIn("u3", TRUE, 1)>>),
    With(With(With(EmptyBody, "title", <<"a">>), "tags", <<2, 2>>),
         "related_ids", <<1, 1>>) }

CtlUpdateBodies ==
  { With(FullFields(<<"b">>, "s2", "d2"), "blocks", <<>>),
    With(With(FullFields(<<"b">>, "s2", "d2"), "images", <<ImageIn("u4", FALSE, 0)>>),
         "tags", <<2>>),
    With(With(With(With([FullFields(<<"a">>, "s1", "d1") EXCEPT !.has = @ \ {"published_at"}],
         "blocks", <<BlockIn("z", TRUE, 3)>>), "images", <<>>), "tags", <<1, 2>>),
         "related_ids", <<1>>),
    With(With(With(With(FullFields(<<"b">>, "s2", "d2"),
         "blocks", <<BlockIn("z", FALSE, 0), BlockIn("x", FALSE, 0)>>),
         "images", <<ImageIn("u4", TRUE, 2)>>), "tags", <<2>>), "related_ids", <<>>),
    With(With(FullFields(<<"b">>, "s2", "d2"), "blocks", <<BlockIn("z", FALSE, 0)>>),
         "tags", <<1, 1>>) }

\* a destructured key with the default [] : an omitted key reads as []
ListOr(body, k) == IF Defined(body, k) THEN body[k] ELSE <<>>

\* block.position || 0
PositionOr0(e) == IF e.hasPos /\ e.position # 0 THEN e.position ELSE 0

CtlBlockRows(id, blocks) ==
  [i \in 1..Len(blocks) |-> BlockRow(id, blocks[i], PositionOr0(blocks[i]))]

CtlImageRows(id, images) ==
  [i \in 1..Len(images) |-> ImageRow(id, images[i], PositionOr0(images[i]))]

RelatedRows(id, rel) == [i \in 1..Len(rel) |-> [news_id |-> id, related_news_id |-> rel[i]]]

\* INSERT IGNORE row by row: a row whose key is already in the table is skipped
RECURSIVE InsertIgnore(_, _)
InsertIgnore(table, rows) ==
  IF rows = <<>> THEN table
  ELSE InsertIgnore(IF \E i \in 1..Len(table) : table[i] = Head(rows)
                    THEN table ELSE Append(table, Head(rows)), Tail(rows))

\* plain INSERT row by row: a row whose key is already in the table is an error
NoDuplicate(table, rows) ==
  /\ \A i \in 1..Len(rows) : \A j \in 1..Len(table) : table[j] # rows[i]
  /\ \A i, j \in 1..Len(rows) : i # j => rows[i] # rows[j]

\* conn.query escapes an undefined parameter as NULL
Param(body, k) == IF Defined(body, k) THEN body[k] ELSE NullAtom

CtlInsertedRow(body) ==
  [title |-> IF Defined(body, "title") THEN body.title ELSE Null,
   subtitle |-> Param(body, "subtitle"),
   summary |-> Param(body, "summary"),
   author_id |-> Param(body, "author_id"),
   main_category_id |-> Param(body, "main_category_id"),
   status |-> IF Defined(body, "status") THEN body.status ELSE "draft",
   published_at |-> Param(body, "published_at"),
   is_featured |-> NullAtom,
   canonical_slug |-> Null]

\* UPDATE news SET title = ?, subtitle = ?, ... WHERE id = ?
CtlUpdatedRow(row, body) ==
  [row EXCEPT !.title = IF Defined(body, "title") THEN body.title ELSE Null,
              !.subtitle = Param(body, "subtitle"),
              !.summary = Param(body, "summary"),
              !.author_id = Param(body, "author_id"),
              !.main_category_id = Param(body, "main_category_id"),
              !.status = Param(body, "status"),
              !.published_at = Param(body, "published_at")]

\* one more request has been handled
Handled == started < MaxOps /\ started' = started + 1

\* nextId is the id of the next row that is committed; the ids a rolled back
\* INSERT consumes are not kept
createNews ==
  \E body \in CtlCreateBodies, ok \in BOOLEAN :
    /\ nextId <= MaxNews
    /\ IF ok
       THEN /\ news' = news @@ (nextId :> CtlInsertedRow(body))
            /\ nextId' = nextId + 1
            /\ news_blocks' = news_blocks \o CtlBlockRows(nextId, ListOr(body, "blocks"))
            /\ news_images' = news_images \o CtlImageRows(nextId, ListOr(body, "images"))
            /\ news_tags' = InsertIgnore(news_tags, TagRows(nextId, ListOr(body, "tags")))
            /\ news_related' = InsertIgnore(news_related,
                                            RelatedRows(nextId, ListOr(body, "related_ids")))
            /\ last' = [kind |-> "createNews", id |-> nextId, body |-> body,
                        status |-> 201, error |-> "none", pre |-> Aggregate(nextId)]
       ELSE /\ UNCHANGED store
            /\ last' = [kind |-> "createNews", id |-> 0, body |-> body,
                        status |-> 500, error |-> "storage", pre |-> NoAggregate]
    /\ Handled
    /\ UNCHANGED <<schema, blobs, taxonomy, req>>

updateNews ==
  \E id \in DOMAIN news, body \in CtlUpdateBodies, ok \in BOOLEAN :
    LET tagRows == TagRows(id, ListOr(body, "tags"))
        relRows == RelatedRows(id, ListOr(body, "related_ids"))
        unique == /\ NoDuplicate(RowsNotOf(news_tags, id), tagRows)
                  /\ NoDuplicate(RowsNotOf(news_related, id), relRows)
        commits == ok /\ unique
    IN /\ IF commits
          THEN /\ news' = [news EXCEPT ![id] = CtlUpdatedRow(news[id], body)]
               /\ news_blocks' = RowsNotOf(news_blocks, id)
                                   \o CtlBlockRows(id, ListOr(body, "blocks"))
               /\ news_images' = RowsNotOf(news_images, id)
                                   \o CtlImageRows(id, ListOr(body, "images"))
               /\ news_tags' = RowsNotOf(news_tags, id) \o tagRows
               /\ news_related' = RowsNotOf(news_related, id) \o relRows
               /\ UNCHANGED nextId
          ELSE UNCHANGED store
       /\ last' = [kind |-> "updateNews", id |-> id, body |-> body,
                   status |-> IF commits THEN 200 ELSE 500,
                   error |-> IF ~ok THEN "storage" ELSE IF ~unique THEN "duplicate" ELSE "none",
                   pre |-> Aggregate(id)]
       /\ Handled
       /\ UNCHANGED <<schema, blobs, taxonomy, req>>

\* the rows of a child table that reference news row id
References(r, id) ==
  r.news_id = id \/ ("related_news_id" \in DOMAIN r /\ r.related_news_id = id)

Referenced(id) ==
  \E table \in {news_blocks, news_images, news_tags, news_related} :
    \E i \in 1..Len(table) : References(table[i], id)

Unreferencing(table, id) == SelectSeq(table, LAMBDA r : ~References(r, id))

\* DELETE FROM news WHERE id = ? raises an error
DeleteFails(id, ok) ==
  ~ok \/ (id \in DOMAIN news /\ onDelete = "restrict" /\ Referenced(id))

\* result.affectedRows of the DELETE
AffectedRows(id, ok) == IF ~DeleteFails(id, ok) /\ id \in DOMAIN news THEN 1 ELSE 0

\* DELETE FROM news WHERE id = ?: the only statement the delete handlers run
DeleteFromNews(id, ok) ==
  IF AffectedRows(id, ok) = 0
  THEN UNCHANGED store
  ELSE /\ news' = [i \in DOMAIN news \ {id} |-> news[i]]
       /\ IF onDelete = "cascade"
          THEN /\ news_blocks' = Unreferencing(news_blocks, id)
               /\ news_images' = Unreferencing(news_images, id)
               /\ news_tags' = Unreferencing(news_tags, id)
               /\ news_related' = Unreferencing(news_related, id)
          ELSE UNCHANGED <<news_blocks, news_images, news_tags, news_related>>
       /\ UNCHANGED nextId

Deleted(kind, id, status, fails) ==
  [kind |-> kind, id |-> id, body |-> EmptyBody, status |-> status,
   error |-> IF fails THEN "storage" ELSE "none", pre |-> Aggregate(id)]

\* news.controller deleteNews
deleteNews ==
  \E id \in 1..MaxNews, ok \in BOOLEAN :
    /\ DeleteFromNews(id, ok)
    /\ last' = Deleted("deleteNews", id, IF DeleteFails(id, ok) THEN 500 ELSE 200,
                       DeleteFails(id, ok))
    /\ Handled
    /\ UNCHANGED <<schema, blobs, taxonomy, req>>

\* server.js app.delete('/api/news/:id'): one awaited call, so one step
DeleteNews ==
  \E id \in 1..MaxNews, ok \in BOOLEAN :
    /\ DeleteFromNews(id, ok)
    /\ last' = Deleted("DELETE", id, IF DeleteFails(id, ok) THEN 500 ELSE 200,
                       DeleteFails(id, ok))
    /\ Handled
    /\ UNCHANGED <<schema, blobs, taxonomy, req>>

\* mysql server (src/migrate-slugs.js 702-716) app.delete('/api/news/:id')
DeleteNewsMysql ==
  \E id \in 1..MaxNews, ok \in BOOLEAN :
    /\ DeleteFromNews(id, ok)
    /\ last' = Deleted("DELETE mysql", id,
                       IF DeleteFails(id, ok) THEN 500
                       ELSE IF AffectedRows(id, ok) = 0 THEN 404 ELSE 200,
                       DeleteFails(id, ok))
    /\ Handled
    /\ UNCHANGED <<schema, blobs, taxonomy, req>>

NextCtl == createNews \/ updateNews \/ deleteNews \/ DeleteNews \/ DeleteNewsMysql

SpecCtl == InitCtl /\ [][NextCtl]_vars

----------------------------------------------------------------------------
(* Properties *)

Finished(c, kind, status) ==
  req[c].kind = kind /\ req[c].pc = "done" /\ req[c].status = status

\* the entries of a stored collection, without news_id and position
BlockEntries(rows) ==
  [i \in 1..Len(rows) |-> [type |-> rows[i].type, content |-> rows[i].content,
                           media_url |-> rows[i].media_url, alt_text |-> rows[i].alt_text]]

ImageEntries(rows) ==
  [i \in 1..Len(rows) |-> [url |-> rows[i].url, caption |-> rows[i].caption,
                           alt_text |-> rows[i].alt_text]]

TagIds(rows) == [i \in 1..Len(rows) |-> rows[i].tag_id]

RelatedIds(rows) == [i \in 1..Len(rows) |-> rows[i].related_news_id]

\* C1: in every reachable state of the store, no two distinct news rows hold
\* the same non-null canonical_slug.
C1_SlugUniqueAcrossNews ==
  \A i, j \in DOMAIN news :
    (i # j /\ news[i].canonical_slug # Null)
      => news[i].canonical_slug # news[j].canonical_slug

\* C2: two creates with identical titles whose executions overlap never both
\* end with 201 and the same final canonical_slug.
C2_ConcurrentCreatesDiffer ==
  \A c, d \in Clients :
    ( /\ c # d
      /\ Finished(c, "POST", 201) /\ Finished(d, "POST", 201)
      /\ ~req[c].solo /\ ~req[d].solo
      /\ Defined(req[c].body, "title") /\ Defined(req[d].body, "title")
      /\ req[c].body.title = req[d].body.title )
    => req[c].slug # req[d].slug

\* C3: when a create fails after its news row was inserted, then once the
\* request has ended the store holds neither that news row nor a child row of it.
C3_FailedCreateLeavesNothing ==
  \A c \in Clients :
    (Finished(c, "POST", 500) /\ req[c].newsId # 0)
      => /\ req[c].newsId \notin DOMAIN news
         /\ RowsOf(news_blocks, req[c].newsId) = <<>>
         /\ RowsOf(news_tags, req[c].newsId) = <<>>
         /\ RowsOf(news_images, req[c].newsId) = <<>>
         /\ RowsOf(news_related, req[c].newsId) = <<>>

\* C4: when an update that no other request overlapped fails, then once it has
\* ended the news row and its four child collections are as they were before it.
C4_FailedUpdateRestores ==
  \A c \in Clients :
    (Finished(c, "PUT", 500) /\ req[c].solo)
      => Aggregate(req[c].id) = req[c].pre

\* C5: a read of the blocks of a news that overlaps the one update replacing
\* them returns the list before the update or the list the update supplies.
C5_ReadSeesOldOrNewBlocks ==
  \A g, u \in Clients :
    ( /\ started = 2
      /\ req[g].kind = "GET" /\ req[g].pc \in {"tags", "related", "done"}
      /\ req[g].status # 404 /\ "blocks" \notin req[g].readErrors
      /\ ~req[g].solo /\ ~req[u].solo
      /\ req[u].kind = "PUT" /\ req[u].id = req[g].id
      /\ Defined(req[u].body, "blocks") )
    => req[g].out.blocks \in
         OrderedReads(req[u].pre.blocks, req[u].id)
           \cup {IndexedBlockRows(req[u].id, req[u].body.blocks)}

\* C6: when an update that no other request overlapped reports success, the
\* stored collection of each supplied kind equals the supplied list.
C6_UpdateStoresSuppliedLists ==
  \A c \in Clients :
    (Finished(c, "PUT", 200) /\ req[c].solo)
      => LET b == req[c].body
             a == Aggregate(req[c].id)
         IN /\ Defined(b, "blocks") => BlockEntries(a.blocks) = BlockEntries(b.blocks)
            /\ Defined(b, "images") => ImageEntries(a.images) = ImageEntries(b.images)
            /\ Defined(b, "tags") => TagIds(a.tags) = b.tags
            /\ Defined(b, "related_ids") => RelatedIds(a.related) = b.related_ids

Committed(kind, status) == last.kind = kind /\ last.status = status

\* C7: an update with blocks = [] and images omitted removes every block of
\* the news and leaves its images as they were.
C7_ClearBlocksKeepsImages ==
  ( /\ Committed("updateNews", 200)
    /\ Defined(last.body, "blocks") /\ last.body.blocks = <<>>
    /\ ~Defined(last.body, "images") )
  => /\ RowsOf(news_blocks, last.id) = <<>>
     /\ RowsOf(news_images, last.id) = last.pre.images

\* C8: an update with blocks omitted leaves the blocks of the news unchanged,
\* and one with tags omitted leaves its tag links unchanged.
C8_OmittedCollectionsUntouched ==
  Committed("updateNews", 200)
  => /\ ~Defined(last.body, "blocks") => RowsOf(news_blocks, last.id) = last.pre.blocks
     /\ ~Defined(last.body, "tags") => RowsOf(news_tags, last.id) = last.pre.tags

\* C9: an update changes only the news fields the request supplies: every
\* omitted field keeps the value it had before.
C9_OmittedFieldsKept ==
  Committed("updateNews", 200)
  => \A k \in NewsColumns \ last.body.has : news[last.id][k] = last.pre.row[k]

\* the block rows C10 expects: the explicit position, else the 0-based index
ExpectedBlockRows(id, blocks) ==
  [i \in 1..Len(blocks) |->
     BlockRow(id, blocks[i], IF blocks[i].hasPos THEN blocks[i].position ELSE i - 1)]

\* C10: after a successful create with n blocks and no images the news has
\* exactly the n blocks, each at its explicit position or else at its index,
\* and no image; blocks given without positions read back in the caller's order.
C10_CreateStoresBlocksAtIndex ==
  (Committed("createNews", 201) /\ ListOr(last.body, "images") = <<>>)
  => LET blocks == ListOr(last.body, "blocks") IN
     /\ RowsOf(news_blocks, last.id) = ExpectedBlockRows(last.id, blocks)
     /\ RowsOf(news_images, last.id) = <<>>
     /\ (\A i \in 1..Len(blocks) : ~blocks[i].hasPos)
          => \A read \in OrderedReads(news_blocks, last.id) :
               BlockEntries(read) = BlockEntries(blocks)

\* the distinct values of a list
Range(seq) == {seq[i] : i \in 1..Len(seq)}

\* C11: a create or update whose tag ids or related ids repeat an id does not
\* fail for that reason: unless the store itself fails it succeeds, and the
\* news ends with exactly one link per distinct id.
C11_DuplicateIdsIgnored ==
  (last.kind \in {"createNews", "updateNews"} /\ last.error # "storage")
  => LET tags == TagIds(RowsOf(news_tags, last.id))
         related == RelatedIds(RowsOf(news_related, last.id))
     IN /\ last.status \in {200, 201}
        /\ Range(tags) = Range(ListOr(last.body, "tags"))
        /\ Len(tags) = Cardinality(Range(tags))
        /\ Range(related) = Range(ListOr(last.body, "related_ids"))
        /\ Len(related) = Cardinality(Range(related))

NewsIds == 1..MaxNews

ChildRowsOf(id) ==
  RowsOf(news_blocks, id) \o RowsOf(news_images, id)
    \o RowsOf(news_tags, id) \o RowsOf(news_related, id)

\* C12: once a delete of news i has succeeded, the news row is gone and no
\* block, image, tag link or related link with news_id = i is left; no state
\* has a child row of a deleted news.
C12_DeleteCascades ==
  \A i \in NewsIds :
    (i < nextId /\ i \notin DOMAIN news) => ChildRowsOf(i) = <<>>

Resolving(c) == req[c].kind \in ResolverCopies

\* the first MaxAttempts candidates of the call of client c are all held
AllTaken(c) ==
  \A k \in 0..(MaxAttempts - 1) :
    Holders(Candidate(req[c].baseSlug, k), req[c].excludeId) # {}

\* no storage query of the call of client c has failed
QueriesSucceeded(c) == req[c].thrown # "store" /\ req[c].readErrors = {}

\* C13: every copy of ensureUniqueSlug makes at most 100 storage queries, and
\* when all the candidates it tries are taken it ends with the exhausted
\* error.
C13_ResolverBounded ==
  \A c \in Clients :
    Resolving(c) =>
      /\ req[c].queries <= MaxAttempts
      /\ (req[c].pc = "done" /\ QueriesSucceeded(c) /\ AllTaken(c))
           => req[c].thrown = "exhausted"

\* candidate number k of the call of client c is the slug of a row other
\* than the excluded one
Taken(c, k) ==
  \E i \in DOMAIN news :
    /\ i # req[c].excludeId
    /\ news[i].canonical_slug = Candidate(req[c].baseSlug, k)

\* the number of the first candidate that is not taken
SmallestFree(c) ==
  CHOOSE k \in 0..(MaxHeld + 1) : ~Taken(c, k) /\ \A j \in 0..(k - 1) : Taken(c, j)

\* the call of client c has ended and all its queries succeeded
Resolved(c) == Resolving(c) /\ req[c].pc = "done" /\ QueriesSucceeded(c)

ReturnedSmallestFree(c) ==
  req[c].thrown = "none" /\ req[c].slug = Candidate(req[c].baseSlug, SmallestFree(c))

ResendsOwnSlug(c) ==
  LET r == req[c] IN
  /\ r.kind = "PUT" /\ r.pre.exists /\ r.solo
  /\ Defined(r.body, "canonical_slug") /\ ~Falsy(r.body.canonical_slug)
  /\ generateSlug(r.body.canonical_slug) = r.pre.row.canonical_slug
  /\ \A i \in DOMAIN news \ {r.id} :
       news[i].canonical_slug # r.pre.row.canonical_slug

\* C15: an update that re-sends the slug its news already holds, a slug no
\* other news holds, gets that slug back from ensureUniqueSlug(s, id) and
\* leaves the stored slug as it was: no suffix is added.
C15_ResendingOwnSlugKeepsIt ==
  \A c \in Clients :
    ResendsOwnSlug(c) =>
      /\ req[c].pc = "update" => req[c].slug = req[c].pre.row.canonical_slug
      /\ news[req[c].id].canonical_slug = req[c].pre.row.canonical_slug

\* such an update has gone through ensureUniqueSlug and its UPDATE and has
\* answered 200
C15_Witness ==
  \E c \in Clients :
    /\ ResendsOwnSlug(c) /\ Finished(c, "PUT", 200)
    /\ req[c].queries = 1
    /\ news[req[c].id].canonical_slug = <<"a">>

\* the GET of client c found its news without a slug and no other request
\* ran meanwhile
BackfillRead(c) ==
  LET r == req[c] IN
  /\ r.kind = "GET" /\ r.solo /\ r.pc = "done" /\ r.status = 200
  /\ r.pre.exists /\ Falsy(r.pre.row.canonical_slug)

\* slug resolution threw, or the update that persists the slug failed
BackfillFailed(c) == req[c].thrown # "none" \/ "backfill" \in req[c].readErrors

\* title || `news-${id}`
SlugSource(c) ==
  IF Falsy(req[c].pre.row.title) THEN SeedOf(req[c].id) ELSE req[c].pre.row.title

\* C16: a read by id of a news without a slug, whose backfill does not fail,
\* derives the slug from the title, or from news-<id> when there is no
\* title, takes the first candidate no other news holds, stores it on the
\* row and returns it: stored slug and returned slug are equal.
C16_ReadBackfillsSlug ==
  \A c \in Clients :
    (BackfillRead(c) /\ ~BackfillFailed(c)) =>
      /\ req[c].baseSlug = generateSlug(SlugSource(c))
      /\ req[c].out.canonical_slug = Candidate(req[c].baseSlug, SmallestFree(c))
      /\ news[req[c].id].canonical_slug = req[c].out.canonical_slug
      /\ news[req[c].id] = [req[c].pre.row EXCEPT !.canonical_slug = req[c].out.canonical_slug]

\* a read has backfilled news-1 for a news without title
C16_Witness ==
  \E c \in Clients :
    /\ BackfillRead(c) /\ ~BackfillFailed(c)
    /\ Falsy(req[c].pre.row.title)
    /\ news[req[c].id].canonical_slug = <<"n", "e", "w", "s", "-", "1">>

\* C17: when slug resolution or the update that persists the slug fails
\* during the backfill, the read still answers 200 with the record and its
\* children, and the stored row stays as it was, without a slug.
C17_FailedBackfillStillReads ==
  \A c \in Clients :
    LET r == req[c] IN
    (r.kind = "GET" /\ r.solo /\ r.pc = "done" /\ r.pre.exists
       /\ Falsy(r.pre.row.canonical_slug) /\ BackfillFailed(c)) =>
      /\ r.status = 200
      /\ news[r.id] = r.pre.row
      /\ r.out.row = r.pre.row /\ r.out.canonical_slug = r.pre.row.canonical_slug
      /\ "images" \notin r.readErrors => r.out.images \in OrderedReads(news_images, r.id)
      /\ "blocks" \notin r.readErrors => r.out.blocks \in OrderedReads(news_blocks, r.id)
      /\ "tags" \notin r.readErrors => r.out.tags = RowsOf(news_tags, r.id)
      /\ "related" \notin r.readErrors => r.out.related = RowsOf(news_related, r.id)

\* a read whose slug resolution threw has answered with the two blocks
C17_Witness ==
  \E c \in Clients :
    /\ req[c].kind = "GET" /\ req[c].pc = "done" /\ req[c].status = 200
    /\ req[c].thrown = "store" /\ req[c].readErrors = {}
    /\ Len(req[c].out.blocks) = 2
    /\ Falsy(news[req[c].id].canonical_slug)

\* category id has a child category or a news in it
CategoryInUse(id) == HasChildren(id) \/ NewsInCategory(id)

\* C18: the delete of a category that has a child category or a news in it
\* fails with the conflict answer (400) and changes nothing: the category
\* stays in the store.
C18_CategoryInUseNotDeleted ==
  /\ \A k \in DOMAIN categories :
       categories[k] # NullAtom => categories[k] \in DOMAIN categories
  /\ \A i \in DOMAIN news :
       news[i].main_category_id # NullAtom => news[i].main_category_id \in DOMAIN categories
  /\ \A c \in Clients :
       (req[c].kind \in {"DELETE category", "DELETE category mysql"}
          /\ req[c].pc = "done" /\ req[c].solo /\ QueriesSucceeded(c)
          /\ req[c].ref \in DOMAIN categories /\ CategoryInUse(req[c].ref))
         => req[c].status = 400

\* C19: the delete of an author that a news references fails and leaves the
\* author in the store; it succeeds only when no news references the author.
C19_AuthorInUseNotDeleted ==
  /\ \A i \in DOMAIN news :
       news[i].author_id # NullAtom => news[i].author_id \in authors
  /\ \A c \in Clients :
       (req[c].kind = "DELETE author" /\ req[c].pc = "done" /\ req[c].solo
          /\ NewsByAuthor(req[c].ref))
         => req[c].status # 200

\* C20: an update or a delete of a news id that names no news row answers
\* not found (404), not success and not the internal error, and changes
\* nothing in the store.
C20_MissingIdIsNotFound ==
  /\ \A c \in Clients :
       (req[c].kind = "PUT" /\ req[c].pc = "done" /\ ~req[c].pre.exists
          /\ req[c].id \notin DOMAIN news /\ req[c].solo)
         => /\ req[c].status \notin {200, 201}
            /\ Aggregate(req[c].id) = req[c].pre
  /\ (last.kind \in {"deleteNews", "DELETE", "DELETE mysql"}
        /\ ~last.pre.exists /\ last.error = "none")
       => last.status = 404

\* C21: when the unique index refuses the insert or the update of a news
\* row, the request either retries with the next suffix or ends with a
\* conflict answer, which is not the 500 of internal failures.
C21_UniqueViolationIsConflict ==
  \A c \in Clients :
    (req[c].kind \in {"POST", "PUT"} /\ req[c].pc = "done" /\ req[c].thrown = "unique")
      => req[c].status # 500

\* a slug that is only a hyphen and a counter, such as -1
OnlySuffix(slug) == slug # <<>> /\ Head(slug) = Hyphen

\* C22: no news row ever holds an empty-string canonical_slug or a slug made
\* only of a hyphen and a counter: a derivation that yields the empty string
\* is replaced by a non-empty seed before it is resolved and stored.
C22_NoEmptySlugStored ==
  \A i \in DOMAIN news :
    news[i].canonical_slug # NoText /\ ~OnlySuffix(news[i].canonical_slug)

\* the characters a slug may have
SlugChars == {"a", "b", "c", "e", "f", "h", "l", "n", "o", "s", "w",
              "0", "1", "2", "3", "4", "5", "6", "7", "8", "9", "_", "-"}

WellFormedSlug(s) ==
  /\ \A i \in 1..Len(s) : s[i] \in SlugChars
  /\ s # <<>> => (s[1] # "-" /\ s[Len(s)] # "-")
  /\ \A i \in 1..(Len(s) - 1) : ~(s[i] = "-" /\ s[i + 1] = "-")

\* a call of one of the copies of generateSlug has returned
Slugged(c) == req[c].kind \in {"generateSlug", "generateSlugMigrate"} /\ req[c].pc = "done"

\* C23: for every input text the output of generateSlug, in both copies, has
\* only lowercase letters, digits, underscore and hyphen, neither starts nor
\* ends with a hyphen and has no two hyphens in a row.
C23_SlugIsWellFormed ==
  \A c \in Clients : Slugged(c) => WellFormedSlug(req[c].slug)

\* "A -a" has given a-a
C23_Witness ==
  \E c \in Clients :
    /\ Slugged(c) /\ req[c].body.title = <<"A", " ", "-", "a">>
    /\ req[c].slug = <<"a", "-", "a">>

\* C24: every copy of generateSlug maps "Cafe con Leche!!", written with an
\* accented e, to cafe-con-leche: the accented letter becomes its base
\* letter.
C24_AccentBecomesBaseLetter ==
  \A c \in Clients :
    (Slugged(c) /\ req[c].body.title = CafeConLeche)
      => req[c].slug = <<"c", "a", "f", "e", "-", "c", "o", "n", "-",
                         "l", "e", "c", "h", "e">>

\* every request made so far is still on record, and none of its queries
\* has failed
AllQueriesSucceeded ==
  /\ Cardinality({c \in Clients : req[c].kind # "none"}) = started
  /\ \A c \in Clients : req[c].readErrors = {} /\ req[c].thrown = "none"

\* C25: whatever the interleaving of a category delete with the creation of
\* a child, a re-parenting or the creation of a news row in the category,
\* no parent_id and no main_category_id names a category that was deleted.
C25_NoReferenceToDeletedCategory ==
  AllQueriesSucceeded =>
    /\ \A k \in DOMAIN categories :
         categories[k] # NullAtom => categories[k] \in DOMAIN categories
    /\ \A i \in DOMAIN news :
         news[i].main_category_id # NullAtom => news[i].main_category_id \in DOMAIN categories

\* the categories reached from k along parent_id in at most n steps
RECURSIVE AncestorsWithin(_, _)
AncestorsWithin(k, n) ==
  IF n = 0 \/ k \notin DOMAIN categories \/ categories[k] = NullAtom THEN {}
  ELSE {categories[k]} \cup AncestorsWithin(categories[k], n - 1)

Ancestors(k) == AncestorsWithin(k, Cardinality(DOMAIN categories))

\* C29: after any sequence of category creations and updates no category is
\* its own ancestor, and an update that names the category as its own
\* parent is refused.
C29_NoCategoryCycle ==
  /\ \A k \in DOMAIN categories : k \notin Ancestors(k)
  /\ \A c \in Clients :
       (/\ req[c].kind \in {"PUT category", "PUT category mysql"}
        /\ req[c].pc = "done" /\ req[c].status = 200
        /\ Defined(req[c].body, "parent_id"))
         => req[c].body.parent_id # req[c].ref

BlockContents(blocks) == [i \in 1..Len(blocks) |-> blocks[i].content]

\* two successful updates of the same news, no store call of which failed
BothUpdated(c, d, k) ==
  /\ c # d /\ Finished(c, "PUT", 200) /\ Finished(d, "PUT", 200)
  /\ req[c].id = req[d].id
  /\ Defined(req[c].body, k) /\ Defined(req[d].body, k)
  /\ req[c].readErrors = {} /\ req[d].readErrors = {}

\* C26: when two updates of the same news, each with a list of blocks (or of
\* tags), both succeed, the stored blocks (tags) are exactly one of the two
\* lists, never both and never a mixture.
C26_ConcurrentUpdatesKeepOneList ==
  \A c, d \in Clients :
    /\ BothUpdated(c, d, "blocks") =>
         BlockContents(RowsOf(news_blocks, req[c].id))
           \in {BlockContents(req[c].body.blocks), BlockContents(req[d].body.blocks)}
    /\ BothUpdated(c, d, "tags") =>
         TagIds(RowsOf(news_tags, req[c].id)) \in {req[c].body.tags, req[d].body.tags}

\* C27: a slug that a copy of ensureUniqueSlug returns was seen free by a
\* query for that very slug that succeeded; when the query fails the copy
\* raises instead of returning.
C27_ReturnedSlugWasSeenFree ==
  \A c \in Clients :
    (Resolving(c) /\ req[c].pc = "done" /\ req[c].thrown = "none")
      => /\ "slug" \notin req[c].readErrors
         /\ \A i \in DOMAIN news :
              news[i].canonical_slug = req[c].slug => i = req[c].excludeId

\* the read of client c persists the slug it has resolved
Backfills(c) ==
  /\ req[c].kind = "GET" /\ req[c].pc = "backfill"
  /\ req'[c].pc = "images" /\ "backfill" \notin req'[c].readErrors

\* C28: the lazy backfill of a read never overwrites a slug that a
\* concurrent request has stored on the row in the meantime: when it writes,
\* the row still has no slug.
C28_BackfillKeepsStoredSlug ==
  [][\A c \in Clients :
       (Backfills(c) /\ req[c].id \in DOMAIN news)
         => Falsy(news[req[c].id].canonical_slug)]_vars

\* the news_images rows of the upload of client c
UploadedRows(c) == {i \in 1..Len(news_images) : news_images[i].url = req[c].file}

\* C30: an upload for a news that does not exist inserts no news_images row
\* and ends not-found; an upload that ends without 201 has removed its image
\* from the image store, unless the call that removes it failed; the upload
\* has a news_images row exactly when it ends with 201.
C30_UploadLeavesNoOrphan ==
  \A c \in Clients :
    (req[c].kind = "POST image" /\ req[c].pc = "done") =>
      /\ req[c].id \notin DOMAIN news => req[c].status = 404
      /\ (req[c].status # 201 /\ "destroy" \notin req[c].readErrors)
           => req[c].publicId \notin blobs
      /\ req[c].status = 201 <=> (req[c].file # NoFile /\ UploadedRows(c) # {})
      /\ \A i \in UploadedRows(c) : news_images[i].news_id = req[c].id

\* an upload whose row insert failed has removed its image, here one whose
\* name reads like a version part of the URL
C30_Witness ==
  \E c \in Clients :
    /\ req[c].kind = "POST image" /\ req[c].pc = "done" /\ req[c].status = 500
    /\ req[c].publicId = PublicIdOf(<<"v", "1">>)
    /\ "destroy" \notin req[c].readErrors
    /\ req[c].publicId \notin blobs

====
